---------------------------- MODULE Spec2Model ----------------------------
(***************************************************************************)
(* A model of the STL viewer: the VR render thread (VRRenderThread) with   *)
(* the GUI-thread operations that drive it, the part tree (ModelPart) and   *)
(* the VTK actors a part owns.                                              *)
(*                                                                          *)
(* The specifications share the variables:                                 *)
(*   SpecVR     the GUI thread and the VR render thread, interleaved        *)
(*   FairVR     SpecVR with the scheduling that lets both threads run       *)
(*   SpecTree   the ModelPart tree operations (single-threaded)             *)
(*   SpecActor  loadSTL / setColour / setVisible / getNewActor              *)
(*   SpecData   the data columns of a part                                  *)
(*   SpecClear  part trees with edited options, and removeAllChildren       *)
(*   SpecList   ModelPartList: addPart / clear / rowCount                   *)
(***************************************************************************)
EXTENDS Integers, Sequences, FiniteSets, TLC

VARIABLES
    \* ---- VRRenderThread (VRRenderThread.h:95-129)
    endRender,        \* bool endRender
    rotateX,          \* double rotateX
    rotateY,          \* double rotateY
    rotateZ,          \* double rotateZ
    actors,           \* vtkActorCollection: the sequence of actors added
    pose,             \* per actor: its orientation about X and its position
    vr,               \* position of the VR thread (QThread life cycle + run())
    interactorDone,   \* interactor->GetDone()
    threadDestroyed,  \* the VRRenderThread object has been destroyed
    gui,              \* position of the GUI thread: the call it is in
    \* ---- ModelPart (ModelPart.h:159-212)
    nextId,           \* number of ModelPart objects constructed so far
    alive,            \* the parts constructed and not destroyed
    m_childItems,     \* QList<ModelPart*> m_childItems, per part
    m_parentItem,     \* ModelPart* m_parentItem, per part
    colour,           \* colourR, colourG, colourB, per part
    isVisible,        \* bool isVisible, per part
    deleted,          \* per part: how many times its destructor has run
    stlReader, stlMapper, stlActor, newMapper, newActor,  \* smart pointers, per part
    heap,             \* the VTK objects allocated so far
    m_itemData,       \* QList<QVariant> m_itemData, per part
    rootItem,         \* ModelPartList::rootItem
    last              \* the operation the last step performed, with its result

vrVars == <<endRender, rotateX, rotateY, rotateZ, actors, pose, vr,
            interactorDone, threadDestroyed, gui>>
treeVars == <<nextId, alive, m_childItems, m_parentItem, deleted>>
lookVars == <<colour, isVisible>>
vtkVars == <<stlReader, stlMapper, stlActor, newMapper, newActor, heap>>
dataVars == <<m_itemData>>
listVars == <<rootItem>>
partVars == <<treeVars, lookVars, vtkVars, dataVars, listVars, last>>
vars == <<vrVars, partVars>>

\* ------------------------------------------------------------------ bounds
\* actors offered to addActorOffline
NumActors == 2
\* addActorOffline calls that may add (keeps the collection finite)
MaxActorAdds == 2
\* ModelPart objects ever constructed
MaxParts == 3
\* ModelPart objects constructed in SpecActor
MaxActorParts == 1
\* VTK objects ever allocated
MaxObjs == 8
\* columns of data a part is constructed with
MaxCols == 2
\* ModelPart objects constructed in SpecData
MaxDataParts == 2

\* ------------------------------------------------------------------ values
\* nullptr; objects are numbered from 1
NULL == 0
\* a field no constructor has initialised (ModelPart.cpp:24-26) holds Uninit;
\* once assigned v it holds Known(v)
Uninit == <<>>
Known(v) == <<v>>

\* ======================================================================
\*  VRRenderThread
\* ======================================================================
\* enum { END_RENDER, ROTATE_X, ROTATE_Y, ROTATE_Z } (VRRenderThread.h:40-45)
END_RENDER == 0
ROTATE_X == 1
ROTATE_Y == 2
ROTATE_Z == 3
Commands == {END_RENDER, ROTATE_X, ROTATE_Y, ROTATE_Z}
\* the double passed with a command
RotValues == {0, 1}
Actors == 1..NumActors
\* actor->GetOrigin(): a property of the actor the transforms do not change
Origin(a) == IF a = 1 THEN <<0, 0, 0>> ELSE <<1, 2, 3>>

Idle == [pc |-> "idle"]

\* QThread::isRunning(): true from start() until run() has returned
isRunning == vr \in {"setup", "test", "body"}

\* VRRenderThread::VRRenderThread
InitVR ==
    /\ endRender = FALSE
    /\ rotateX = 0
    /\ rotateY = 0
    /\ rotateZ = 0
    /\ actors = <<>>
    /\ pose = [a \in Actors |-> [rotX |-> 0, pos |-> <<0, 0, 0>>]]
    /\ vr = "notStarted"
    /\ interactorDone = FALSE
    /\ threadDestroyed = FALSE
    /\ gui = Idle

\* the shared command fields after issueCommand(cmd, value)'s switch
issueCommand_DropsEnd(cmd, value) ==
    [endRender |-> endRender,
     rotateX |-> IF cmd = ROTATE_X THEN value ELSE rotateX,
     rotateY |-> IF cmd = ROTATE_Y THEN value ELSE rotateY,
     rotateZ |-> IF cmd = ROTATE_Z THEN value ELSE rotateZ]

issueCommand_FallsThrough(cmd, value) ==
    [endRender |-> IF cmd = END_RENDER THEN TRUE ELSE endRender,
     rotateX |-> IF cmd = ROTATE_X THEN value ELSE rotateX,
     rotateY |-> IF cmd \in {ROTATE_X, ROTATE_Y} THEN value ELSE rotateY,
     rotateZ |-> IF cmd = ROTATE_Z THEN value ELSE rotateZ]

\* the source text ends inside the ROTATE_Z case (VRRenderThread.cpp:181), which
\* is taken to store value as the two cases before it do
issueCommand(cmd, value) ==
    [endRender |-> IF cmd = END_RENDER THEN TRUE ELSE endRender,
     rotateX |-> IF cmd = ROTATE_X THEN value ELSE rotateX,
     rotateY |-> IF cmd = ROTATE_Y THEN value ELSE rotateY,
     rotateZ |-> IF cmd = ROTATE_Z THEN value ELSE rotateZ]

\* the field a command stores to
FieldOf(cmd) ==
    CASE cmd = END_RENDER -> "endRender"
      [] cmd = ROTATE_X -> "rotateX"
      [] cmd = ROTATE_Y -> "rotateY"
      [] OTHER -> "rotateZ"

\* ---- the GUI thread
\* the GUI thread enters issueCommand(cmd, value)
CallIssueCommand(cmd, value) ==
    /\ gui.pc = "idle"
    /\ ~threadDestroyed
    /\ gui' = [pc |-> "issueCommand", cmd |-> cmd, value |-> value, ret |-> "idle"]
    /\ UNCHANGED <<endRender, rotateX, rotateY, rotateZ, actors, pose, vr,
                   interactorDone, threadDestroyed,
                   partVars>>

\* the store of issueCommand's switch, and the return; no lock is taken
IssueCommandStore ==
    /\ gui.pc = "issueCommand"
    /\ LET f == issueCommand(gui.cmd, gui.value)
       IN /\ endRender' = f.endRender
          /\ rotateX' = f.rotateX
          /\ rotateY' = f.rotateY
          /\ rotateZ' = f.rotateZ
    /\ gui' = [pc |-> gui.ret]
    /\ UNCHANGED <<actors, pose, vr, interactorDone, threadDestroyed,
                   partVars>>

\* the GUI thread enters addActorOffline(actor)
CallAddActorOffline(a) ==
    /\ gui.pc = "idle"
    /\ ~threadDestroyed
    /\ Len(actors) < MaxActorAdds
    /\ gui' = [pc |-> "addActorOffline", actor |-> a]
    /\ UNCHANGED <<endRender, rotateX, rotateY, rotateZ, actors, pose, vr,
                   interactorDone, threadDestroyed,
                   partVars>>

\* actor->RotateX(-90); actor->AddPosition(-ac[0], -ac[1] - 100, -ac[2] - 200)
Placed(a) ==
    LET ac == Origin(a)
        p == pose[a].pos
    IN [rotX |-> pose[a].rotX - 90,
        pos |-> <<p[1] + (-ac[1] + 0), p[2] + (-ac[2] - 100), p[3] + (-ac[3] - 200)>>]

AddActorOffline_Unchecked ==
    /\ gui.pc = "addActorOffline"
    /\ pose' = [pose EXCEPT ![gui.actor] = Placed(gui.actor)]
    /\ actors' = Append(actors, gui.actor)
    /\ gui' = Idle
    /\ UNCHANGED <<endRender, rotateX, rotateY, rotateZ, vr, interactorDone,
                   threadDestroyed,
                   partVars>>

\* the body of addActorOffline
AddActorOffline ==
    /\ gui.pc = "addActorOffline"
    /\ IF ~isRunning
       THEN /\ pose' = [pose EXCEPT ![gui.actor] = Placed(gui.actor)]
            /\ actors' = Append(actors, gui.actor)
       ELSE UNCHANGED <<actors, pose>>
    /\ gui' = Idle
    /\ UNCHANGED <<endRender, rotateX, rotateY, rotateZ, vr, interactorDone,
                   threadDestroyed,
                   partVars>>

\* QThread::start() on the thread object the MainWindow constructor made
StartVR ==
    /\ gui.pc = "idle"
    /\ ~threadDestroyed
    /\ ~isRunning
    /\ vr' = "setup"
    /\ UNCHANGED <<endRender, rotateX, rotateY, rotateZ, actors, pose,
                   interactorDone, threadDestroyed, gui,
                   partVars>>

\* MainWindow::~MainWindow: if (vrThread && vrThread->isRunning()) issueCommand(END_RENDER, 0.0)
MainWindowDtor ==
    /\ gui.pc = "idle"
    /\ ~threadDestroyed
    /\ gui' = IF isRunning
              THEN [pc |-> "issueCommand", cmd |-> END_RENDER, value |-> 0,
                    ret |-> "mwWait"]
              ELSE [pc |-> "mwDelete"]
    /\ UNCHANGED <<endRender, rotateX, rotateY, rotateZ, actors, pose, vr,
                   interactorDone, threadDestroyed,
                   partVars>>

MainWindowDtorWait_Skipped ==
    /\ gui.pc = "mwWait"
    /\ gui' = [pc |-> "mwDelete"]
    /\ UNCHANGED <<endRender, rotateX, rotateY, rotateZ, actors, pose, vr,
                   interactorDone, threadDestroyed,
                   partVars>>

\* MainWindow::~MainWindow: vrThread->wait() returns once the thread has finished
MainWindowDtorWait ==
    /\ gui.pc = "mwWait"
    /\ ~isRunning
    /\ gui' = [pc |-> "mwDelete"]
    /\ UNCHANGED <<endRender, rotateX, rotateY, rotateZ, actors, pose, vr,
                   interactorDone, threadDestroyed,
                   partVars>>

\* delete vrThread enters VRRenderThread::~VRRenderThread: endRender = true
ThreadDtor ==
    /\ gui.pc = "mwDelete"
    /\ endRender' = TRUE
    /\ gui' = [pc |-> "dtorWait"]
    /\ UNCHANGED <<rotateX, rotateY, rotateZ, actors, pose, vr, interactorDone,
                   threadDestroyed,
                   partVars>>

\* VRRenderThread::~VRRenderThread: wait() returns, the object is gone
ThreadDtorWait ==
    /\ gui.pc = "dtorWait"
    /\ ~isRunning
    /\ threadDestroyed' = TRUE
    /\ gui' = [pc |-> "closed"]
    /\ UNCHANGED <<endRender, rotateX, rotateY, rotateZ, actors, pose, vr,
                   interactorDone,
                   partVars>>

\* ---- the VR thread: run()
\* run() builds the renderer, window, camera and a new interactor
RunSetup ==
    /\ vr = "setup"
    /\ vr' = "test"
    /\ interactorDone' = FALSE
    /\ UNCHANGED <<endRender, rotateX, rotateY, rotateZ, actors, pose,
                   threadDestroyed, gui,
                   partVars>>

\* the loop test: the loop goes on until the interactor is done or endRender is set
RunTest ==
    /\ vr = "test"
    /\ vr' = IF interactorDone \/ endRender THEN "finished" ELSE "body"
    /\ UNCHANGED <<endRender, rotateX, rotateY, rotateZ, actors, pose,
                   interactorDone, threadDestroyed, gui,
                   partVars>>

\* one pass of the loop body: handle VR events (the user may quit), poll the rotations
RunBody ==
    /\ vr = "body"
    /\ vr' = "test"
    /\ \E quit \in BOOLEAN : interactorDone' = (interactorDone \/ quit)
    /\ UNCHANGED <<endRender, rotateX, rotateY, rotateZ, actors, pose,
                   threadDestroyed, gui,
                   partVars>>

\* the shared field the VR thread's next step reads
VRReads(f) ==
    \/ vr = "test" /\ f = "endRender"
    \/ vr = "body" /\ f \in {"rotateX", "rotateY", "rotateZ"}

\* the shared field the GUI thread's next step writes
GUIWrites(f) ==
    /\ gui.pc = "issueCommand"
    /\ f = FieldOf(gui.cmd)

GUIStep ==
    \/ \E cmd \in Commands, value \in RotValues : CallIssueCommand(cmd, value)
    \/ IssueCommandStore
    \/ \E a \in Actors : CallAddActorOffline(a)
    \/ AddActorOffline
    \/ StartVR
    \/ MainWindowDtor
    \/ MainWindowDtorWait
    \/ ThreadDtor
    \/ ThreadDtorWait

VRStep ==
    \/ RunSetup
    \/ RunTest
    \/ RunBody

\* ======================================================================
\*  ModelPart: the part tree
\* ======================================================================
Ids == 1..MaxParts
\* QVariant values a column may hold
Values == {"Part", "Wheel"}
\* the data the tree operations construct a part with: a name and a flag
DefaultData == <<"Part", "true">>
\* the rows offered to child(): negative, in range, and past the end
Rows == -1..MaxParts
Range(list) == {list[i] : i \in DOMAIN list}

\* before any ModelPart is constructed
InitParts ==
    /\ nextId = 0
    /\ alive = {}
    /\ m_childItems = [p \in Ids |-> <<>>]
    /\ m_parentItem = [p \in Ids |-> NULL]
    /\ colour = [p \in Ids |-> Uninit]
    /\ isVisible = [p \in Ids |-> Uninit]
    /\ deleted = [p \in Ids |-> 0]
    /\ stlReader = [p \in Ids |-> NULL]
    /\ stlMapper = [p \in Ids |-> NULL]
    /\ stlActor = [p \in Ids |-> NULL]
    /\ newMapper = [p \in Ids |-> NULL]
    /\ newActor = [p \in Ids |-> NULL]
    /\ heap = <<>>
    /\ m_itemData = [p \in Ids |-> <<>>]
    /\ rootItem = NULL
    /\ last = [op |-> "none"]

\* QList::indexOf: the 0-based index of the first occurrence, -1 if there is none
indexOf(list, x) ==
    IF x \in Range(list)
    THEN (CHOOSE i \in DOMAIN list : list[i] = x /\ \A j \in 1..(i - 1) : list[j] # x) - 1
    ELSE -1

childCount_ColumnCount(p) == Len(m_itemData[p])

\* ModelPart::childCount
childCount(p) == Len(m_childItems[p])

child_SkipsLast(p, row) ==
    IF row < 0 \/ row >= Len(m_childItems[p]) - 1
    THEN NULL
    ELSE m_childItems[p][row + 1]

\* ModelPart::child
child(p, row) ==
    IF row < 0 \/ row >= Len(m_childItems[p])
    THEN NULL
    ELSE m_childItems[p][row + 1]

\* ModelPart::parentItem
parentItem(p) == m_parentItem[p]

row_AlwaysFirst(p) == 0

\* ModelPart::row
row(p) ==
    IF m_parentItem[p] # NULL
    THEN indexOf(m_childItems[m_parentItem[p]], p)
    ELSE 0

\* the parts reachable from p through child lists, p included
RECURSIVE Subtree(_)
Subtree(p) == {p} \cup UNION {Subtree(c) : c \in Range(m_childItems[p])}

\* no live part lists item as a child: the caller still owns it
Unowned(item) == \A q \in alive : item \notin Range(m_childItems[q])

\* ~ModelPart and the qDeleteAll it calls: the destructor runs on p, then on
\* every part of p's child list; del counts the destructor runs per part
RECURSIVE Destructor(_, _)
RECURSIVE qDeleteAll(_, _)
Destructor_LeaksChildren(del, p) == [del EXCEPT ![p] = @ + 1]

Destructor(del, p) == qDeleteAll([del EXCEPT ![p] = @ + 1], m_childItems[p])

qDeleteAll(del, list) ==
    IF list = <<>>
    THEN del
    ELSE qDeleteAll(Destructor(del, Head(list)), Tail(list))

\* new ModelPart(data, parent): the parent pointer is stored, nothing is added
\* to the parent's child list; colourR/G/B and isVisible are not initialised
NewPart(data, parent) ==
    /\ nextId < MaxParts
    /\ parent \in alive \cup {NULL}
    /\ LET id == nextId + 1
       IN /\ nextId' = id
          /\ alive' = alive \cup {id}
          /\ m_parentItem' = [m_parentItem EXCEPT ![id] = parent]
          /\ m_itemData' = [m_itemData EXCEPT ![id] = data]
          /\ last' = [op |-> "new", self |-> id, parent |-> parent]
    /\ UNCHANGED <<m_childItems, deleted, lookVars, vtkVars, vrVars, listVars>>

\* new ModelPart({"Part", "true"}, parent): the tree operations do not look at
\* the data, so they construct every part with the same two columns
CreatePart(parent) == NewPart(DefaultData, parent)

AppendChild_Prepends(p, item) ==
    /\ p \in alive /\ item \in alive
    /\ Unowned(item)
    /\ p \notin Subtree(item)
    /\ m_parentItem' = [m_parentItem EXCEPT ![item] = p]
    /\ m_childItems' = [m_childItems EXCEPT ![p] = <<item>> \o @]
    /\ last' = [op |-> "appendChild", self |-> p, item |-> item]
    /\ UNCHANGED <<nextId, alive, deleted, lookVars, vtkVars, vrVars, dataVars, listVars>>

\* p->appendChild(item); the caller hands over a part it owns (ModelPart.h:39),
\* so item is in no child list and p is not below it
AppendChild(p, item) ==
    /\ p \in alive /\ item \in alive
    /\ Unowned(item)
    /\ p \notin Subtree(item)
    /\ m_parentItem' = [m_parentItem EXCEPT ![item] = p]
    /\ m_childItems' = [m_childItems EXCEPT ![p] = Append(@, item)]
    /\ last' = [op |-> "appendChild", self |-> p, item |-> item]
    /\ UNCHANGED <<nextId, alive, deleted, lookVars, vtkVars, vrVars, dataVars, listVars>>

\* p->child(r)
Child(p, r) ==
    /\ p \in alive
    /\ last' = [op |-> "child", self |-> p, row |-> r, ret |-> child(p, r)]
    /\ UNCHANGED <<treeVars, lookVars, vtkVars, vrVars, dataVars, listVars>>

\* p->row(); through a parent pointer to a destroyed part the read is of freed
\* memory and may give any index
Row(p) ==
    /\ p \in alive
    /\ \E r \in Rows :
          /\ (m_parentItem[p] = NULL \/ m_parentItem[p] \in alive) => r = row(p)
          /\ last' = [op |-> "row", self |-> p, ret |-> r]
    /\ UNCHANGED <<treeVars, lookVars, vtkVars, vrVars, dataVars, listVars>>

\* delete p, on a part the caller owns
DeletePart(p) ==
    /\ p \in alive
    /\ Unowned(p)
    /\ deleted' = Destructor(deleted, p)
    /\ alive' = {q \in alive : deleted'[q] = 0}
    /\ last' = [op |-> "delete", self |-> p]
    /\ UNCHANGED <<nextId, m_childItems, m_parentItem, lookVars, vtkVars, vrVars, dataVars, listVars>>

RemoveAllChildren_KeepsList(p) ==
    /\ p \in alive
    /\ deleted' = qDeleteAll(deleted, m_childItems[p])
    /\ alive' = {q \in alive : deleted'[q] = 0}
    /\ last' = [op |-> "removeAllChildren", self |-> p]
    /\ UNCHANGED <<nextId, m_childItems, m_parentItem, lookVars, vtkVars, vrVars,
                   dataVars, listVars>>

\* p->removeAllChildren(): qDeleteAll(m_childItems); m_childItems.clear()
RemoveAllChildren(p) ==
    /\ p \in alive
    /\ deleted' = qDeleteAll(deleted, m_childItems[p])
    /\ alive' = {q \in alive : deleted'[q] = 0}
    /\ m_childItems' = [m_childItems EXCEPT ![p] = <<>>]
    /\ last' = [op |-> "removeAllChildren", self |-> p]
    /\ UNCHANGED <<nextId, m_parentItem, lookVars, vtkVars, vrVars, dataVars, listVars>>

TreeStep ==
    \/ \E parent \in Ids \cup {NULL} : CreatePart(parent)
    \/ \E p \in Ids, item \in Ids : AppendChild(p, item)
    \/ \E p \in Ids, r \in Rows : Child(p, r)
    \/ \E p \in Ids : Row(p)
    \/ \E p \in Ids : DeletePart(p)
    \/ \E p \in Ids : RemoveAllChildren(p)

\* ======================================================================
\*  ModelPart: the VTK actors of a part
\* ======================================================================
\* the colours offered to setColour (R, G, B in 0..255)
Colours == {<<255, 0, 0>>, <<0, 128, 255>>}
\* a colour component as VTK holds it: the double n / 255.0, kept as a fraction
Frac(n) == <<n, 255>>
\* the colour of a vtkProperty nobody has set: (1.0, 1.0, 1.0)
White == <<<<1, 1>>, <<1, 1>>, <<1, 1>>>>

\* actor->GetProperty()->GetColor(); VTK makes an actor's property on the first
\* GetProperty(), which no caller can tell from the actor having it from the
\* start, as it does here
ActorColour(a) == heap[heap[a].property].color

\* p->loadSTL(fileName): a reader, a mapper fed by it, an actor with that mapper
LoadSTL(p) ==
    /\ p \in alive
    /\ Len(heap) + 4 <= MaxObjs
    /\ LET n == Len(heap)
       IN /\ heap' = heap \o <<[kind |-> "reader"],
                               [kind |-> "polyDataMapper", input |-> n + 1],
                               [kind |-> "property", color |-> White],
                               [kind |-> "actor", mapper |-> n + 2,
                                property |-> n + 3, visibility |-> TRUE]>>
          /\ stlReader' = [stlReader EXCEPT ![p] = n + 1]
          /\ stlMapper' = [stlMapper EXCEPT ![p] = n + 2]
          /\ stlActor' = [stlActor EXCEPT ![p] = n + 4]
    /\ last' = [op |-> "loadSTL", self |-> p]
    /\ UNCHANGED <<newMapper, newActor, treeVars, lookVars, vrVars, dataVars, listVars>>

\* p->setColour(R, G, B)
SetColour(p, c) ==
    /\ p \in alive
    /\ colour' = [colour EXCEPT ![p] = Known(c)]
    /\ IF stlActor[p] # NULL
       THEN heap' = [heap EXCEPT ![heap[stlActor[p]].property].color =
                                     <<Frac(c[1]), Frac(c[2]), Frac(c[3])>>]
       ELSE UNCHANGED heap
    /\ last' = [op |-> "setColour", self |-> p]
    /\ UNCHANGED <<isVisible, stlReader, stlMapper, stlActor, newMapper, newActor,
                   treeVars, vrVars, dataVars, listVars>>

\* p->setVisible(visible)
SetVisible(p, v) ==
    /\ p \in alive
    /\ isVisible' = [isVisible EXCEPT ![p] = Known(v)]
    /\ IF stlActor[p] # NULL
       THEN heap' = [heap EXCEPT ![stlActor[p]].visibility = v]
       ELSE UNCHANGED heap
    /\ last' = [op |-> "setVisible", self |-> p]
    /\ UNCHANGED <<colour, stlReader, stlMapper, stlActor, newMapper, newActor,
                   treeVars, vrVars, dataVars, listVars>>

\* p->getActor()
GetActor(p) ==
    /\ p \in alive
    /\ last' = [op |-> "getActor", self |-> p, ret |-> stlActor[p]]
    /\ UNCHANGED <<treeVars, lookVars, vtkVars, vrVars, dataVars, listVars>>

GetNewActor_ReturnsGuiActor(p) ==
    /\ p \in alive
    /\ last' = [op |-> "getNewActor", self |-> p, ret |-> stlActor[p]]
    /\ UNCHANGED <<treeVars, lookVars, vtkVars, vrVars, dataVars, listVars>>

GetNewActor_OwnProperty(p) ==
    /\ p \in alive
    /\ IF stlActor[p] = NULL
       THEN /\ last' = [op |-> "getNewActor", self |-> p, ret |-> NULL]
            /\ UNCHANGED vtkVars
       ELSE /\ Len(heap) + 3 <= MaxObjs
            /\ LET n == Len(heap)
               IN /\ heap' = heap \o <<[kind |-> "dataSetMapper", input |-> stlReader[p]],
                                       [kind |-> "property", color |-> White],
                                       [kind |-> "actor", mapper |-> n + 1,
                                        property |-> n + 2, visibility |-> TRUE]>>
                  /\ newMapper' = [newMapper EXCEPT ![p] = n + 1]
                  /\ newActor' = [newActor EXCEPT ![p] = n + 3]
                  /\ last' = [op |-> "getNewActor", self |-> p, ret |-> n + 3]
            /\ UNCHANGED <<stlReader, stlMapper, stlActor>>
    /\ UNCHANGED <<treeVars, lookVars, vrVars, dataVars, listVars>>

\* p->getNewActor(): nullptr without a GUI actor; else a new mapper on the
\* reader's output, a new actor with it, and SetProperty(stlActor->GetProperty())
GetNewActor(p) ==
    /\ p \in alive
    /\ IF stlActor[p] = NULL
       THEN /\ last' = [op |-> "getNewActor", self |-> p, ret |-> NULL]
            /\ UNCHANGED vtkVars
       ELSE /\ Len(heap) + 2 <= MaxObjs
            /\ LET n == Len(heap)
               IN /\ heap' = heap \o <<[kind |-> "dataSetMapper", input |-> stlReader[p]],
                                       [kind |-> "actor", mapper |-> n + 1,
                                        property |-> heap[stlActor[p]].property,
                                        visibility |-> TRUE]>>
                  /\ newMapper' = [newMapper EXCEPT ![p] = n + 1]
                  /\ newActor' = [newActor EXCEPT ![p] = n + 2]
                  /\ last' = [op |-> "getNewActor", self |-> p, ret |-> n + 2]
            /\ UNCHANGED <<stlReader, stlMapper, stlActor>>
    /\ UNCHANGED <<treeVars, lookVars, vrVars, dataVars, listVars>>

\* new ModelPart(data) for a part that is given no parent
CreateActorPart ==
    /\ nextId < MaxActorParts
    /\ CreatePart(NULL)

ActorStep ==
    \/ CreateActorPart
    \/ \E p \in Ids : LoadSTL(p)
    \/ \E p \in Ids, c \in Colours : SetColour(p, c)
    \/ \E p \in Ids, v \in BOOLEAN : SetVisible(p, v)
    \/ \E p \in Ids : GetActor(p)
    \/ \E p \in Ids : GetNewActor(p)

\* ======================================================================
\*  ModelPart: the data columns
\* ======================================================================
\* lists of at most MaxCols columns offered to the constructor
DataLists == UNION {[1..n -> Values] : n \in 0..MaxCols}
\* the columns offered to data() and setData(): negative, in range, past the end
Cols == -1..MaxCols
\* QVariant(): the invalid value, which is none of Values
Invalid == "QVariant()"

\* ModelPart::columnCount
columnCount(p) == Len(m_itemData[p])

\* ModelPart::data
data(p, column) ==
    IF column < 0 \/ column >= Len(m_itemData[p])
    THEN Invalid
    ELSE m_itemData[p][column + 1]

setData_FirstColumn(p, column, value) ==
    IF column < 0 \/ column >= Len(m_itemData[p])
    THEN m_itemData
    ELSE [m_itemData EXCEPT ![p][1] = value]

\* ModelPart::setData: m_itemData of every part after p->setData(column, value)
setData(p, column, value) ==
    IF column < 0 \/ column >= Len(m_itemData[p])
    THEN m_itemData
    ELSE [m_itemData EXCEPT ![p][column + 1] = value]

\* p->setData(column, value)
SetData(p, column, value) ==
    /\ p \in alive
    /\ m_itemData' = setData(p, column, value)
    /\ last' = [op |-> "setData", self |-> p, column |-> column, value |-> value]
    /\ UNCHANGED <<treeVars, lookVars, vtkVars, vrVars, listVars>>

\* p->data(column)
Data(p, column) ==
    /\ p \in alive
    /\ last' = [op |-> "data", self |-> p, column |-> column, ret |-> data(p, column)]
    /\ UNCHANGED <<treeVars, lookVars, vtkVars, vrVars, dataVars, listVars>>

\* new ModelPart(data), without a parent
CreateDataPart(list) ==
    /\ nextId < MaxDataParts
    /\ NewPart(list, NULL)

DataStep ==
    \/ \E list \in DataLists : CreateDataPart(list)
    \/ \E p \in Ids, c \in Cols, v \in Values : SetData(p, c, v)
    \/ \E p \in Ids, c \in Cols : Data(p, c)

\* MainWindow::on_actionItemOptions_triggered with the dialog accepted:
\* setData(0, name); setColour(R, G, B); setVisible(visible)
ItemOptions(p, name, c, v) ==
    /\ p \in alive
    /\ m_itemData' = setData(p, 0, name)
    /\ colour' = [colour EXCEPT ![p] = Known(c)]
    /\ isVisible' = [isVisible EXCEPT ![p] = Known(v)]
    /\ IF stlActor[p] # NULL
       THEN heap' = [heap EXCEPT ![heap[stlActor[p]].property].color =
                                     <<Frac(c[1]), Frac(c[2]), Frac(c[3])>>,
                                 ![stlActor[p]].visibility = v]
       ELSE UNCHANGED heap
    /\ last' = [op |-> "itemOptions", self |-> p]
    /\ UNCHANGED <<stlReader, stlMapper, stlActor, newMapper, newActor,
                   treeVars, vrVars, listVars>>

\* building a tree of parts, editing their options, clearing their children
ClearStep ==
    \/ CreatePart(NULL)
    \/ \E p \in Ids, item \in Ids : AppendChild(p, item)
    \/ \E p \in Ids : ItemOptions(p, "Wheel", <<255, 0, 0>>, FALSE)
    \/ \E p \in Ids : RemoveAllChildren(p)

\* ======================================================================
\*  ModelPartList: the item model over the tree of parts
\* ======================================================================
\* QModelIndex(): the invalid index, whose internal pointer is null
InvalidIndex == NULL

\* the parts a valid index can refer to: the live parts below the root item
Indexed == IF rootItem = NULL THEN {} ELSE Subtree(rootItem) \ {rootItem}

\* new ModelPartList("PartsList"): the root item holds the column headers
NewModelPartList ==
    /\ rootItem = NULL
    /\ nextId < MaxParts
    /\ LET id == nextId + 1
       IN /\ nextId' = id
          /\ alive' = alive \cup {id}
          /\ m_itemData' = [m_itemData EXCEPT ![id] = DefaultData]
          /\ rootItem' = id
          /\ last' = [op |-> "newList", self |-> id]
    /\ UNCHANGED <<m_childItems, m_parentItem, deleted, lookVars, vtkVars, vrVars>>

\* a part made from an STL file and put under parent: new ModelPart({name,
\* "true"}, parent); parent->appendChild(part); part->loadSTL(filePath);
\* part->setVisible(true)
AddUnder(parent, name, op) ==
    /\ rootItem # NULL
    /\ parent \in Subtree(rootItem)
    /\ nextId < MaxParts
    /\ Len(heap) + 4 <= MaxObjs
    /\ LET id == nextId + 1
           n == Len(heap)
       IN /\ nextId' = id
          /\ alive' = alive \cup {id}
          /\ m_parentItem' = [m_parentItem EXCEPT ![id] = parent]
          /\ m_itemData' = [m_itemData EXCEPT ![id] = <<name, "true">>]
          /\ m_childItems' = [m_childItems EXCEPT ![parent] = Append(@, id)]
          /\ heap' = heap \o <<[kind |-> "reader"],
                               [kind |-> "polyDataMapper", input |-> n + 1],
                               [kind |-> "property", color |-> White],
                               [kind |-> "actor", mapper |-> n + 2,
                                property |-> n + 3, visibility |-> TRUE]>>
          /\ stlReader' = [stlReader EXCEPT ![id] = n + 1]
          /\ stlMapper' = [stlMapper EXCEPT ![id] = n + 2]
          /\ stlActor' = [stlActor EXCEPT ![id] = n + 4]
          /\ isVisible' = [isVisible EXCEPT ![id] = Known(TRUE)]
          /\ last' = [op |-> op, self |-> id, parent |-> parent]
    /\ UNCHANGED <<deleted, colour, newMapper, newActor, vrVars, listVars>>

\* partList->addPart(name, filePath): the new part is a child of the root item
AddPart(name) == AddUnder(rootItem, name, "addPart")

\* MainWindow::loadPartsRecursively(dir, parentItem), for one file of dir
LoadPart(parent, name) == AddUnder(parent, name, "loadPart")

\* partList->clear(): every part below the root item is destroyed
Clear ==
    /\ rootItem # NULL
    /\ deleted' = qDeleteAll(deleted, m_childItems[rootItem])
    /\ alive' = {q \in alive : deleted'[q] = 0}
    /\ m_childItems' = [m_childItems EXCEPT ![rootItem] = <<>>]
    /\ last' = [op |-> "clear", self |-> rootItem]
    /\ UNCHANGED <<nextId, m_parentItem, lookVars, vtkVars, vrVars, dataVars, listVars>>

\* ModelPartList::rowCount
rowCount(parent) ==
    IF parent = InvalidIndex
    THEN childCount(rootItem)
    ELSE childCount(parent)

\* partList->rowCount(parent)
RowCount(parent) ==
    /\ rootItem # NULL
    /\ parent \in Indexed \cup {InvalidIndex}
    /\ last' = [op |-> "rowCount", parent |-> parent, ret |-> rowCount(parent)]
    /\ UNCHANGED <<treeVars, lookVars, vtkVars, vrVars, dataVars, listVars>>

ListStep ==
    \/ NewModelPartList
    \/ \E name \in Values : AddPart(name)
    \/ \E parent \in Ids, name \in Values : LoadPart(parent, name)
    \/ Clear
    \/ \E p \in Indexed : ItemOptions(p, "Wheel", <<255, 0, 0>>, FALSE)
    \/ \E parent \in Ids \cup {InvalidIndex} : RowCount(parent)

\* ======================================================================
\*  specifications
\* ======================================================================
Init == InitVR /\ InitParts

NextVR == GUIStep \/ VRStep
SpecVR == Init /\ [][NextVR]_vars
\* both threads are scheduled: the VR thread keeps running run(), and the GUI
\* thread, once inside issueCommand, performs its store
FairVR == SpecVR /\ WF_vars(VRStep) /\ WF_vars(IssueCommandStore)

NextTree == TreeStep
SpecTree == Init /\ [][NextTree]_vars

NextActor == ActorStep
SpecActor == Init /\ [][NextActor]_vars

NextData == DataStep
SpecData == Init /\ [][NextData]_vars

NextClear == ClearStep
SpecClear == Init /\ [][NextClear]_vars

NextList == ListStep
SpecList == Init /\ [][NextList]_vars

\* ======================================================================
\*  claims about VRRenderThread
\* ======================================================================
Fields == {"endRender", "rotateX", "rotateY", "rotateZ"}

\* C1: issueCommand is thread-safe: the GUI thread's store to endRender,
\* rotateX, rotateY or rotateZ and the render loop's read of the same field are
\* never both pending at once (they are serialised).
C1_Serialised == \A f \in Fields : ~(GUIWrites(f) /\ VRReads(f))

\* C2: a call of addActorOffline(actor) appends the actor, rotated by -90 about
\* X and moved by (-origin.x, -origin.y - 100, -origin.z - 200), if and only if
\* the thread is not running at the call; while the thread runs no step changes
\* the collection, and the call leaves collection and transform as they were.
C2_AddsOnlyOffline ==
    [][/\ (gui.pc = "addActorOffline" /\ gui'.pc = "idle") =>
            LET a == gui.actor
                o == Origin(a)
            IN IF vr \in {"notStarted", "finished"}
               THEN /\ actors' = actors \o <<a>>
                    /\ pose'[a].rotX = pose[a].rotX - 90
                    /\ pose'[a].pos = <<pose[a].pos[1] - o[1],
                                        pose[a].pos[2] - o[2] - 100,
                                        pose[a].pos[3] - o[3] - 200>>
                    /\ \A b \in Actors \ {a} : pose'[b] = pose[b]
               ELSE actors' = actors /\ pose' = pose
       /\ isRunning => actors' = actors]_vars

\* one actor was added offline, and a second call arrives while the thread runs
C2_Witness == Len(actors) = 1 /\ gui.pc = "addActorOffline" /\ isRunning

\* C3: endRender is false after construction; and whenever, with the thread
\* running, END_RENDER is issued or the loop's interactor reports done, the
\* loop exits and the thread finishes.
C3_LoopExits ==
    /\ endRender = FALSE
    /\ (isRunning /\ gui.pc = "issueCommand" /\ gui.cmd = END_RENDER) ~> ~isRunning
    /\ (vr \in {"test", "body"} /\ interactorDone) ~> ~isRunning

\* the destructor issued END_RENDER to a running loop whose interactor was
\* not done, and the thread has finished
C3_Witness == gui.pc = "mwWait" /\ vr = "finished" /\ ~interactorDone

\* C4: the thread object is never destroyed while run() executes: it is gone
\* only once the thread has finished, and ~MainWindow reaches its delete only
\* with the thread not running.
C4_NotDestroyedWhileRunning ==
    /\ threadDestroyed => ~isRunning
    /\ gui.pc = "mwDelete" => ~isRunning

\* a thread that was started has been destroyed
C4_Witness == threadDestroyed /\ vr = "finished"

\* ======================================================================
\*  claims about ModelPart
\* ======================================================================
\* C5: getNewActor returns nullptr when the part has no GUI actor; otherwise
\* it returns an actor created by the call, not the GUI actor, whose mapper is
\* created by the call, is not the GUI mapper and reads the part's STL reader;
\* the GUI actor, its mapper and its property are as before the call.
C5_NewActor ==
    [][\A p \in Ids : (last'.op = "getNewActor" /\ last'.self = p) =>
          LET r == last'.ret
              g == stlActor[p]
          IN IF g = NULL
             THEN r = NULL
             ELSE /\ r # NULL /\ r # g
                  /\ r \notin DOMAIN heap /\ r \in DOMAIN heap'
                  /\ heap'[r].kind = "actor"
                  /\ heap'[r].mapper \notin DOMAIN heap
                  /\ heap'[r].mapper # stlMapper[p]
                  /\ heap'[heap'[r].mapper].input = stlReader[p]
                  /\ stlActor'[p] = g
                  /\ \A o \in DOMAIN heap : heap'[o] = heap[o]]_vars

\* getNewActor has returned an actor
C5_Witness == last.op = "getNewActor" /\ last.ret # NULL

\* C6: right after getNewActor returns an actor, that actor's colour is the
\* GUI actor's colour.
C6_SameColour ==
    [][\A p \in Ids, r \in 1..MaxObjs :
          (last'.op = "getNewActor" /\ last'.self = p /\ last'.ret = r) =>
             ActorColour(r)' = ActorColour(stlActor[p])']_vars

\* getNewActor has returned an actor for a part whose GUI actor was coloured
C6_Witness ==
    /\ last.op = "getNewActor"
    /\ last.ret # NULL
    /\ ActorColour(last.ret) # White

\* C7: after p->appendChild(item), item's parent is p, item is p's last child,
\* p has exactly one child more, and the children p had keep their rows.
C7_AppendChild ==
    [][\A p \in Ids, item \in Ids :
          (last'.op = "appendChild" /\ last'.self = p /\ last'.item = item) =>
             /\ parentItem(item)' = p
             /\ child(p, childCount(p) - 1)' = item
             /\ childCount(p)' = childCount(p) + 1
             /\ \A r \in 0..(childCount(p) - 1) : child(p, r)' = child(p, r)]_vars

\* a part was appended to a part that had a child already
C7_Witness == last.op = "appendChild" /\ childCount(last.self) >= 2

\* C8 as claimed: for every part with a parent, the parent's child at the
\* part's row() is the part; without a parent row() is 0.
C8_RowFindsPart ==
    \A p \in alive :
       IF m_parentItem[p] # NULL
       THEN child(m_parentItem[p], row(p)) = p
       ELSE row(p) = 0

\* C8 as amended: for every part that its (live) parent lists as a child, the
\* parent's child at the part's row() is the part; a part whose parent does
\* not list it (constructed with that parent, not appended) has row() -1; a
\* part without a parent has row() 0.
C8_RowOfListedPart ==
    \A p \in alive :
       LET q == m_parentItem[p]
       IN /\ q = NULL => row(p) = 0
          /\ (q \in alive /\ p \in Range(m_childItems[q])) => child(q, row(p)) = p
          /\ (q \in alive /\ p \notin Range(m_childItems[q])) => row(p) = -1

\* a part is the second child of its parent
C8_Witness == \E p \in alive : m_parentItem[p] \in alive /\ row(p) >= 1

\* C9: p->child(row) returns the child at position row when 0 <= row <
\* childCount(), and nullptr for every other row; the call changes nothing.
C9_ChildInRangeOrNull ==
    [][\A p \in Ids, r \in Rows :
          (last'.op = "child" /\ last'.self = p /\ last'.row = r) =>
             /\ last'.ret = IF 0 <= r /\ r < childCount(p)
                            THEN m_childItems[p][r + 1]
                            ELSE NULL
             /\ UNCHANGED <<treeVars, lookVars, vtkVars>>]_vars

\* child() was asked for the row just past the last child and gave nullptr
C9_Witness ==
    /\ last.op = "child"
    /\ childCount(last.self) >= 1
    /\ last.row = childCount(last.self)
    /\ last.ret = NULL

\* C10: delete p runs the destructor exactly once on p and on every part
\* reachable from p through child lists, and on no other part.
C10_DestroysSubtree ==
    [][\A p \in Ids : (last'.op = "delete" /\ last'.self = p) =>
          /\ \A q \in Ids :
                deleted'[q] = IF q \in Subtree(p) THEN 1 ELSE deleted[q]
          /\ alive' = alive \ Subtree(p)]_vars

\* a part with descendants was destroyed and a part outside it is still there
C10_Witness ==
    /\ last.op = "delete"
    /\ Cardinality(Subtree(last.self)) >= 2
    /\ alive # {}

\* C11: after p->removeAllChildren() p has no children (childCount() is 0 and
\* child(r) is nullptr for every r), every part that was below p has been
\* destroyed, once, and p is still there with its data, colour, visibility
\* and parent as before.
C11_RemovesAllChildren ==
    [][\A p \in Ids : (last'.op = "removeAllChildren" /\ last'.self = p) =>
          /\ childCount(p)' = 0
          /\ \A r \in Rows : child(p, r)' = NULL
          /\ \A q \in Subtree(p) \ {p} : q \notin alive' /\ deleted'[q] = 1
          /\ p \in alive' /\ deleted'[p] = 0
          /\ m_itemData'[p] = m_itemData[p]
          /\ colour'[p] = colour[p]
          /\ isVisible'[p] = isVisible[p]
          /\ m_parentItem'[p] = m_parentItem[p]]_vars

\* removeAllChildren ran on a part whose options had been set and that had a
\* child with a child of its own
C11_Witness ==
    /\ last.op = "removeAllChildren"
    /\ colour[last.self] # Uninit
    /\ \E q \in Ids, g \in Ids :
          /\ m_parentItem[q] = last.self /\ deleted[q] = 1
          /\ m_parentItem[g] = q /\ deleted[g] = 1

\* C12: p->setData(column, value) with 0 <= column < columnCount() makes
\* data(column) return value and leaves every other column and columnCount()
\* as they were; with any other column it changes no data at all. data(column)
\* with a column out of range returns the invalid QVariant.
C12_SetDataInRangeOnly ==
    [][\A p \in Ids, c \in Cols :
          /\ (last'.op = "setData" /\ last'.self = p /\ last'.column = c) =>
                IF 0 <= c /\ c < columnCount(p)
                THEN /\ data(p, c)' = last'.value
                     /\ \A d \in Cols \ {c} : data(p, d)' = data(p, d)
                     /\ columnCount(p)' = columnCount(p)
                     /\ \A q \in Ids \ {p} : m_itemData'[q] = m_itemData[q]
                ELSE m_itemData' = m_itemData
          /\ (last'.op = "data" /\ last'.self = p /\ last'.column = c
                 /\ (c < 0 \/ c >= columnCount(p))) =>
                last'.ret = Invalid]_vars

\* setData wrote the second of two columns, and the first holds another value
C12_Witness ==
    /\ last.op = "setData"
    /\ last.column = 1
    /\ columnCount(last.self) = 2
    /\ data(last.self, 1) = last.value
    /\ data(last.self, 0) # last.value

\* C13: partList->rowCount(parent) returns the number of top-level parts, the
\* children of the root item, when parent is the invalid index, and otherwise
\* the childCount() of the part parent refers to, which is the number of parts
\* living under it, whatever parts were added and whatever clears happened.
C13_RowCount ==
    last.op = "rowCount" =>
       IF last.parent = InvalidIndex
       THEN last.ret = Cardinality({q \in alive : q # rootItem /\ m_parentItem[q] = rootItem})
       ELSE /\ last.ret = childCount(last.parent)
            /\ last.ret = Cardinality({q \in alive : m_parentItem[q] = last.parent})

\* rowCount of the invalid index counted the one part added after a clear
\* had destroyed an earlier one
C13_Witness ==
    /\ last.op = "rowCount"
    /\ last.parent = InvalidIndex
    /\ last.ret = 1
    /\ \E q \in Ids : deleted[q] = 1

\* C14: a call of issueCommand(cmd, value) stores to one shared field only:
\* END_RENDER makes endRender true and leaves the three rotations, ROTATE_X,
\* ROTATE_Y and ROTATE_Z store value to their own rotation and leave endRender
\* and the other two; nothing else the render thread shares is touched, and
\* an endRender that is true stays true.
C14_OneFieldPerCommand ==
    [][\A c \in Commands, v \in RotValues :
          (/\ gui.pc = "issueCommand" /\ gui.cmd = c /\ gui.value = v
           /\ gui'.pc # "issueCommand") =>
             /\ endRender' = (c = END_RENDER \/ endRender)
             /\ rotateX' = (IF c = ROTATE_X THEN v ELSE rotateX)
             /\ rotateY' = (IF c = ROTATE_Y THEN v ELSE rotateY)
             /\ rotateZ' = (IF c = ROTATE_Z THEN v ELSE rotateZ)
             /\ Cardinality({i \in 1..4 :
                   <<endRender, rotateX, rotateY, rotateZ>>'[i]
                      # <<endRender, rotateX, rotateY, rotateZ>>[i]}) <= 1
             /\ endRender => endRender'
             /\ UNCHANGED <<actors, pose, vr, interactorDone, threadDestroyed>>]_vars

\* END_RENDER, ROTATE_X and ROTATE_Z have each been issued and stored, and
\* rotateY, which no command named, still has its initial value
C14_Witness ==
    /\ gui = Idle
    /\ endRender
    /\ rotateX = 1
    /\ rotateY = 0
    /\ rotateZ = 1

=============================================================================
